---------------------------- MODULE Spec2Model ----------------------------
(***************************************************************************)
(* Model of the Albert launcher plugin "WordReference" (src/__init__.py):  *)
(* query parsing, the per-language-pair session cache, and the flattening  *)
(* of a translation result into the items added to the query.              *)
(*                                                                         *)
(* Text the code inspects character by character (the query string, the    *)
(* language-pair code, the text to translate, a from_word's source) is a   *)
(* sequence of one-character strings; text the code only concatenates is a *)
(* string.  Str turns the former into the latter.                          *)
(***************************************************************************)
EXTENDS Naturals, Sequences, FiniteSets, TLC

VARIABLES
    available_dicts,  \* Plugin.available_dicts: ordered mapping code -> {from, to}
    wr_instances,     \* Plugin.wr_instances: code -> session identity
    sessions,         \* number of WordReference objects constructed and stored
    assigned,         \* code -> number of assignments to wr_instances[code]
    phase,            \* "idle" | "pending" | "done": life of the current Query
    query_string,     \* Query.string of the current query
    trigger,          \* Query.trigger of the current query
    results,          \* the items added to the current query, in order
    retrieval,        \* what the collaborators did for the current query
    threads           \* overlapping handler invocations (SpecCache only)

vars == <<available_dicts, wr_instances, sessions, assigned, phase,
          query_string, trigger, results, retrieval, threads>>

-----------------------------------------------------------------------------
(* Bounds of the model                                                     *)

MaxPieces == 4
MaxSections == 2
MaxEntries == 2
MaxMeanings == 2
MaxThreads == 3

-----------------------------------------------------------------------------
(* Text                                                                    *)

RECURSIVE Str(_)
Str(s) == IF s = <<>> THEN "" ELSE Head(s) \o Str(Tail(s))

\* str.lower() on one character
LowerChar(c) ==
    CASE c = "E" -> "e" [] c = "N" -> "n" [] c = "F" -> "f" [] c = "R" -> "r"
      [] c = "H" -> "h" [] c = "L" -> "l" [] c = "O" -> "o" [] c = "P" -> "p"
      [] c = "Z" -> "z" [] c = "S" -> "s" [] c = "C" -> "c" [] c = "A" -> "a"
      [] OTHER -> c

\* str.lower()
Lower(s) == [i \in 1..Len(s) |-> LowerChar(s[i])]

\* the characters str.strip() and str.split() treat as whitespace
IsSpace(c) == c \in {" ", "\t"}

RECURSIVE LStrip(_)
LStrip(s) == IF s # <<>> /\ IsSpace(Head(s)) THEN LStrip(Tail(s)) ELSE s

RECURSIVE RStrip(_)
RStrip(s) ==
    IF s # <<>> /\ IsSpace(s[Len(s)]) THEN RStrip(SubSeq(s, 1, Len(s) - 1)) ELSE s

\* str.strip()
Strip(s) == RStrip(LStrip(s))

\* length of the longest whitespace-free prefix
RECURSIVE TokenLen(_)
TokenLen(s) == IF s = <<>> \/ IsSpace(Head(s)) THEN 0 ELSE 1 + TokenLen(Tail(s))

\* str.split(maxsplit=1): at most two parts, the second the remainder after
\* the first whitespace run (its own trailing whitespace is kept)
SplitMax1(s) ==
    LET t == LStrip(s)
        n == TokenLen(t)
        rest == LStrip(SubSeq(t, n + 1, Len(t)))
    IN  IF t = <<>> THEN <<>>
        ELSE IF rest = <<>> THEN <<SubSeq(t, 1, n)>>
        ELSE <<SubSeq(t, 1, n), rest>>

-----------------------------------------------------------------------------
(* Items                                                                   *)

plugin_icon == "file:wordreference.svg"

Action(id, text, kind, arg) == [id |-> id, text |-> text, kind |-> kind, arg |-> arg]

StandardItem(id, text, subtext, inputActionText, actions) ==
    [id |-> id, text |-> text, subtext |-> subtext, iconUrls |-> <<plugin_icon>>,
     inputActionText |-> inputActionText, actions |-> actions]

-----------------------------------------------------------------------------
(* _show_usage                                                             *)

examples ==
    << <<"enfr hello", "English to French">>,
       <<"fren bonjour", "French to English">>,
       <<"ende computer", "English to German">>,
       <<"esen gracias", "Spanish to English">> >>

show_usage(trig) ==
    << StandardItem("translator_usage", "WordReference Translation",
                    "Format: [language_pair] [word] (e.g., 'enfr hello')",
                    trig \o "enfr ",
                    << Action("copy", "Copy format", "setClipboardText", "enfr hello") >>) >>
    \o [i \in 1..Len(examples) |->
          StandardItem("translator_example_" \o ToString(i - 1),
                       "Example: " \o examples[i][1],
                       examples[i][2],
                       trig \o examples[i][1],
                       << Action("use", "Use this example", "setClipboardText",
                                 trig \o examples[i][1]) >>)]

-----------------------------------------------------------------------------
(* _show_invalid_language_pair                                             *)

SuggestionLimit == 10

NonWorking == { <<"e","s","c","a">>, <<"r","u","e","n">> }

PairItem(trig, d) ==
    StandardItem("translator_pair_" \o Str(d.code),
                 Str(d.code) \o ": " \o d.from \o " to " \o d.to,
                 "Language pair for translating from " \o d.from \o " to " \o d.to,
                 trig \o Str(d.code) \o " ",
                 << Action("use", "Use this language pair", "setClipboardText",
                           trig \o Str(d.code) \o " ") >>)

\* mutant of PairLoop: the non-working pairs are not skipped
RECURSIVE PairLoop_noDeny(_, _, _, _)
PairLoop_noDeny(trig, dicts, i, count) ==
    IF i > Len(dicts) \/ count >= SuggestionLimit THEN <<>>
    ELSE <<PairItem(trig, dicts[i])>> \o PairLoop_noDeny(trig, dicts, i + 1, count + 1)

\* the loop over available_dicts.items(): i is the position, count the
\* number of suggestions added so far
RECURSIVE PairLoop(_, _, _, _)
PairLoop(trig, dicts, i, count) ==
    IF i > Len(dicts) \/ count >= SuggestionLimit THEN <<>>
    ELSE IF dicts[i].code \in NonWorking THEN PairLoop(trig, dicts, i + 1, count)
    ELSE <<PairItem(trig, dicts[i])>> \o PairLoop(trig, dicts, i + 1, count + 1)

show_invalid_language_pair(trig, dicts, lang_pair) ==
    << StandardItem("translator_invalid_pair",
                    "Invalid language pair: " \o Str(lang_pair),
                    "Please use one of the supported language pairs",
                    "", <<>>) >>
    \o PairLoop(trig, dicts, 1, 0)

-----------------------------------------------------------------------------
(* Python values handed back by the wrpy collaborator                      *)
(*                                                                         *)
(* A dict is a record with a field "keys", the set of keys it holds; the   *)
(* other fields give the values of those keys.  "py" is the value's type.  *)

\* dict.get(key, default)
Get(d, key, default) == IF key \in d.keys THEN d[key] ELSE default

\* the "not x" test on a dict or None
Falsy(v) == v.py = "NoneType" \/ (v.py = "dict" /\ v.keys = {})

NoException == [raised |-> FALSE, msg |-> ""]

Raise(msg) == [raised |-> TRUE, msg |-> msg]

\* str(e) of the AttributeError raised by v.get(...) on a value that is no dict
AttributeErrorGet(v) == Raise("'" \o v.py \o "' object has no attribute 'get'")

\* str(e) of the KeyError raised by d[key]
KeyErrorOf(key) == Raise("'" \o key \o "'")

\* statements in sequence: the second runs only if the first did not raise
Then(a, b) ==
    IF a.exc.raised THEN a ELSE [items |-> a.items \o b.items, exc |-> b.exc]

Nothing == [items |-> <<>>, exc |-> NoException]

-----------------------------------------------------------------------------
(* _translate: the loops over sections, entries and to_word items          *)

\* mutant of Subtext: every meaning is given the first example
Subtext_firstExample(entry, to_idx, section_title) ==
    LET context == Get(entry, "context", "")
        from_example == Get(entry, "from_example", "")
        to_examples == Get(entry, "to_example", <<>>)
        example_parts ==
            (IF from_example # "" THEN <<from_example>> ELSE <<>>)
            \o (IF to_examples # <<>> THEN <<to_examples[1]>> ELSE <<>>)
        example_line ==
            IF Len(example_parts) = 2
            THEN example_parts[1] \o " ⟹ " \o example_parts[2]
            ELSE example_parts[1]
        subtext_parts ==
            (IF context # "" THEN <<context>> ELSE <<>>)
            \o (IF example_parts # <<>> THEN <<example_line>> ELSE <<>>)
    IN  IF subtext_parts = <<>> THEN section_title
        ELSE IF Len(subtext_parts) = 2
             THEN subtext_parts[1] \o "\n" \o subtext_parts[2]
             ELSE subtext_parts[1]

\* lines 258-279: the subtext of the item of meaning to_idx
Subtext(entry, to_idx, section_title) ==
    LET context == Get(entry, "context", "")
        from_example == Get(entry, "from_example", "")
        to_examples == Get(entry, "to_example", <<>>)
        subtext_ctx == IF context # "" THEN <<context>> ELSE <<>>
        example_parts ==
            (IF from_example # "" THEN <<from_example>> ELSE <<>>)
            \o (IF to_examples # <<>> /\ to_idx < Len(to_examples)
                THEN <<to_examples[to_idx + 1]>> ELSE <<>>)
        example_line ==
            IF Len(example_parts) = 2
            THEN example_parts[1] \o " ⟹ " \o example_parts[2]
            ELSE example_parts[1]
        subtext_parts ==
            subtext_ctx \o (IF example_parts # <<>> THEN <<example_line>> ELSE <<>>)
    IN  IF subtext_parts = <<>> THEN section_title
        ELSE IF Len(subtext_parts) = 2
             THEN subtext_parts[1] \o "\n" \o subtext_parts[2]
             ELSE subtext_parts[1]

\* lines 242-255: the text of the item
DisplayText(source, from_grammar, to_word) ==
    LET meaning == Get(to_word, "meaning", "")
        notes == Get(to_word, "notes", "")
        grammar == Get(to_word, "grammar", "")
        source_with_grammar ==
            Str(source) \o (IF from_grammar # "" THEN " " \o from_grammar ELSE "")
        target_with_grammar ==
            meaning \o (IF grammar # "" THEN " " \o grammar ELSE "")
                    \o (IF notes # "" THEN " (" \o notes \o ")" ELSE "")
    IN  source_with_grammar \o " → " \o target_with_grammar

\* mutant of ResultId: the entry index is left out
ResultId_noEntry(section_idx, entry_idx, to_idx) ==
    "translator_result_" \o ToString(section_idx) \o "_" \o ToString(to_idx)

\* lines 281-284
ResultId(section_idx, entry_idx, to_idx) ==
    "translator_result_" \o ToString(section_idx) \o "_" \o ToString(entry_idx)
        \o "_" \o ToString(to_idx)

\* lines 286-309
ResultItem(url, text, section_title, section_idx, entry_idx, entry, to_idx, to_word) ==
    LET from_word == Get(entry, "from_word", [keys |-> {}])
        source == Get(from_word, "source", text)
        from_grammar == Get(from_word, "grammar", "")
        meaning == Get(to_word, "meaning", "")
    IN  StandardItem(ResultId(section_idx, entry_idx, to_idx),
                     DisplayText(source, from_grammar, to_word),
                     Subtext(entry, to_idx, section_title),
                     "",
                     << Action("copy", "Copy translation", "setClipboardText", meaning) >>
                     \o (IF url # ""
                         THEN << Action("open", "Open in browser", "openUrl", url) >>
                         ELSE <<>>))

\* lines 232-311: for to_idx, to_word in enumerate(to_words), from to_idx on
RECURSIVE ToWordLoop(_, _, _, _, _, _, _)
ToWordLoop(url, text, section_title, section_idx, entry_idx, entry, to_idx) ==
    LET to_words == Get(entry, "to_word", <<>>)
        to_word == to_words[to_idx + 1]
    IN  IF to_idx >= Len(to_words) THEN Nothing
        ELSE IF to_word.py # "dict" THEN [items |-> <<>>, exc |-> AttributeErrorGet(to_word)]
        ELSE Then([items |-> << ResultItem(url, text, section_title, section_idx,
                                           entry_idx, entry, to_idx, to_word) >>,
                   exc |-> NoException],
                  ToWordLoop(url, text, section_title, section_idx, entry_idx,
                             entry, to_idx + 1))

\* mutants of SkipEntry: the entry is never skipped; the sources are compared
\* as they are
SkipEntry_never(section_idx, entry_idx, entry, text) == FALSE

SkipEntry_exact(section_idx, entry_idx, entry, text) ==
    /\ section_idx = 0
    /\ entry_idx = 0
    /\ Get(Get(entry, "from_word", [keys |-> {}]), "source", <<>>) = text

\* lines 209-215: the first entry of the first section echoing the query
SkipEntry(section_idx, entry_idx, entry, text) ==
    /\ section_idx = 0
    /\ entry_idx = 0
    /\ Lower(Get(Get(entry, "from_word", [keys |-> {}]), "source", <<>>)) = Lower(text)

\* lines 207-311: for entry_idx, entry in enumerate(section.get("entries", [])),
\* from entry_idx on
RECURSIVE EntryLoop(_, _, _, _, _, _)
EntryLoop(url, text, section_title, section_idx, section, entry_idx) ==
    LET entries == Get(section, "entries", <<>>)
        entry == entries[entry_idx + 1]
        rest == EntryLoop(url, text, section_title, section_idx, section, entry_idx + 1)
    IN  IF entry_idx >= Len(entries) THEN Nothing
        ELSE IF entry.py # "dict" THEN [items |-> <<>>, exc |-> AttributeErrorGet(entry)]
        ELSE IF SkipEntry(section_idx, entry_idx, entry, text) THEN rest
        ELSE Then(ToWordLoop(url, text, section_title, section_idx, entry_idx, entry, 0),
                  rest)

\* line 204
SectionTitle(section, section_idx) ==
    Get(section, "title", "Section " \o ToString(section_idx + 1))

\* lines 203-311: for section_idx, section in enumerate(result["translations"]),
\* from section_idx on
RECURSIVE SectionLoop(_, _, _, _)
SectionLoop(url, text, translations, section_idx) ==
    LET section == translations[section_idx + 1]
    IN  IF section_idx >= Len(translations) THEN Nothing
        ELSE IF section.py # "dict"
             THEN [items |-> <<>>, exc |-> AttributeErrorGet(section)]
        ELSE Then(EntryLoop(url, text, SectionTitle(section, section_idx),
                            section_idx, section, 0),
                  SectionLoop(url, text, translations, section_idx + 1))

\* lines 171-186: the item of the "no translations" branch; building its
\* subtext calls result.get, which raises when result is None
NoResults(text, result) ==
    IF result.py # "dict" THEN [items |-> <<>>, exc |-> AttributeErrorGet(result)]
    ELSE [items |->
            << StandardItem("translator_no_results", "No translation results found",
                            "Could not translate '" \o Str(text) \o "' from "
                                \o Get(result, "from_lang", "") \o " to "
                                \o Get(result, "to_lang", ""),
                            "",
                            << Action("retry", "Try again", "setClipboardText",
                                      Str(text)) >>) >>,
          exc |-> NoException]

\* lines 171-315: what _translate does with the value translate() returned
ProcessResult(text, result) ==
    IF Falsy(result) \/ "translations" \notin result.keys \/ result.translations = <<>>
    THEN NoResults(text, result)
    ELSE IF "word" \notin result.keys THEN [items |-> <<>>, exc |-> KeyErrorOf("word")]
    ELSE IF "from_lang" \notin result.keys
         THEN [items |-> <<>>, exc |-> KeyErrorOf("from_lang")]
    ELSE IF "to_lang" \notin result.keys
         THEN [items |-> <<>>, exc |-> KeyErrorOf("to_lang")]
    ELSE SectionLoop(Get(result, "url", ""), text, result.translations, 0)

\* mutant of ErrorItem: the logged error_msg is what the action copies
ErrorItem_prefixed(msg) ==
    StandardItem("translator_error", "Translation error", msg, "",
                 << Action("copy", "Copy error", "setClipboardText",
                           "Translation error: " \o msg) >>)

\* lines 317-335: the item the except clause adds
ErrorItem(msg) ==
    StandardItem("translator_error", "Translation error", msg, "",
                 << Action("copy", "Copy error", "setClipboardText", msg) >>)

\* mutant of NeedsSession: a session is constructed for every query
NeedsSession_always(lang_pair, instances) == TRUE

\* line 155: whether the handler constructs a session
NeedsSession(lang_pair, instances) == lang_pair \notin DOMAIN instances

\* lines 149-335.  ctor is what WordReference(lang_pair) does if it is called
\* and tr what translate(text) does if it is called (each: raised, msg, and
\* for tr the value returned).  Gives the items added to the query and
\* whether a session was constructed and stored, and translate called.
translate(text, lang_pair, instances, ctor, tr) ==
    LET construct == NeedsSession(lang_pair, instances)
        body ==
            IF construct /\ ctor.raised THEN [items |-> <<>>, exc |-> Raise(ctor.msg)]
            ELSE IF tr.raised THEN [items |-> <<>>, exc |-> Raise(tr.msg)]
            ELSE ProcessResult(text, tr.value)
    IN  [items |-> IF body.exc.raised
                   THEN body.items \o <<ErrorItem(body.exc.msg)>>
                   ELSE body.items,
         stored |-> construct /\ ~ctor.raised,
         ctor_calls |-> IF construct THEN 1 ELSE 0,
         translate_calls |-> IF construct /\ ctor.raised THEN 0 ELSE 1]

-----------------------------------------------------------------------------
(* handleTriggerQuery                                                      *)

\* mutant of Parse: only a first token longer than 4 is malformed
Parse_short(raw, dicts) ==
    LET query_str == Strip(raw)
        parts == SplitMax1(query_str)
    IN  IF query_str = <<>> THEN [mode |-> "usage", lang_pair |-> <<>>, text |-> <<>>]
        ELSE IF Len(parts) < 2 \/ Len(parts[1]) > 4
             THEN [mode |-> "usage", lang_pair |-> <<>>, text |-> <<>>]
        ELSE IF \A i \in 1..Len(dicts) : dicts[i].code # Lower(parts[1])
             THEN [mode |-> "invalid", lang_pair |-> Lower(parts[1]), text |-> parts[2]]
        ELSE [mode |-> "translate", lang_pair |-> Lower(parts[1]), text |-> parts[2]]

\* lines 43-62: "usage", "invalid" or "translate", with the parsed parts
Parse(raw, dicts) ==
    LET query_str == Strip(raw)
        parts == SplitMax1(query_str)
    IN  IF query_str = <<>> THEN [mode |-> "usage", lang_pair |-> <<>>, text |-> <<>>]
        ELSE IF Len(parts) < 2 \/ Len(parts[1]) # 4
             THEN [mode |-> "usage", lang_pair |-> <<>>, text |-> <<>>]
        ELSE IF \A i \in 1..Len(dicts) : dicts[i].code # Lower(parts[1])
             THEN [mode |-> "invalid", lang_pair |-> Lower(parts[1]), text |-> parts[2]]
        ELSE [mode |-> "translate", lang_pair |-> Lower(parts[1]), text |-> parts[2]]

\* lines 41-65: the whole handler on one query
handleTriggerQuery(raw, trig, dicts, instances, ctor, tr) ==
    LET p == Parse(raw, dicts)
        t == translate(p.text, p.lang_pair, instances, ctor, tr)
    IN  IF p.mode = "usage"
        THEN [items |-> show_usage(trig), stored |-> FALSE, lang_pair |-> p.lang_pair,
              ctor_calls |-> 0, translate_calls |-> 0]
        ELSE IF p.mode = "invalid"
        THEN [items |-> show_invalid_language_pair(trig, dicts, p.lang_pair),
              stored |-> FALSE, lang_pair |-> p.lang_pair,
              ctor_calls |-> 0, translate_calls |-> 0]
        ELSE [items |-> t.items, stored |-> t.stored, lang_pair |-> p.lang_pair,
              ctor_calls |-> t.ctor_calls, translate_calls |-> t.translate_calls]

-----------------------------------------------------------------------------
(* Inputs: registries, query strings, and what the collaborators return    *)

\* get_available_dicts(): the registry, in its own order
DictPool ==
    << [code |-> <<"e","n","a","r">>, from |-> "English", to |-> "Arabic"],
       [code |-> <<"e","n","z","h">>, from |-> "English", to |-> "Chinese"],
       [code |-> <<"e","n","c","z">>, from |-> "English", to |-> "Czech"],
       [code |-> <<"e","n","n","l">>, from |-> "English", to |-> "Dutch"],
       [code |-> <<"e","n","f","r">>, from |-> "English", to |-> "French"],
       [code |-> <<"e","n","d","e">>, from |-> "English", to |-> "German"],
       [code |-> <<"e","s","c","a">>, from |-> "Spanish", to |-> "Catalan"],
       [code |-> <<"e","n","g","r">>, from |-> "English", to |-> "Greek"],
       [code |-> <<"e","n","i","t">>, from |-> "English", to |-> "Italian"],
       [code |-> <<"e","n","j","a">>, from |-> "English", to |-> "Japanese"],
       [code |-> <<"r","u","e","n">>, from |-> "Russian", to |-> "English"],
       [code |-> <<"e","n","k","o">>, from |-> "English", to |-> "Korean"],
       [code |-> <<"e","n","p","l">>, from |-> "English", to |-> "Polish"],
       [code |-> <<"e","n","p","t">>, from |-> "English", to |-> "Portuguese"],
       [code |-> <<"e","n","e","s">>, from |-> "English", to |-> "Spanish"] >>

\* registries of 0, 4, 7, 12 and 15 pairs: without and with "enfr", with 10
\* and with more than 10 working pairs, the non-working ones among them
Registries == { SubSeq(DictPool, 1, n) : n \in {0, 4, 7, 12, Len(DictPool)} }

Triggers == {"w ", "wr "}

Pieces ==
    { <<" ">>, <<"\t">>, <<"e","n","f","r">>, <<"E","n","F","r">>, <<"e","n">>,
      <<"H","e","l","l","o">> }

RECURSIVE Concat(_)
Concat(ps) == IF ps = <<>> THEN <<>> ELSE Head(ps) \o Concat(Tail(ps))

\* every string made of at most MaxPieces pieces
RawInputs ==
    { Concat(ps) : ps \in UNION { [1..n -> Pieces] : n \in 0..MaxPieces } }

\* the queries of the formatting checks
FormatQueries ==
    { <<"e","n","f","r"," ","h","e","l","l","o">>,
      <<"E","N","F","R"," ","H","e","l","l","o">>,
      <<" ","e","n","f","r","\t"," ","h","e","l","p"," ">>,
      <<"e","n","f","r"," ","h","e","l","l","o"," ","h","e","l","p">> }

PyNone == [py |-> "NoneType", keys |-> {}]

PyStr == [py |-> "str", keys |-> {}]

ToWord(keys, meaning, grammar, notes) ==
    [py |-> "dict", keys |-> keys, meaning |-> meaning, grammar |-> grammar,
     notes |-> notes]

FromWord(keys, source, grammar) == [keys |-> keys, source |-> source, grammar |-> grammar]

Entry(keys, context, from_word, from_example, to_word, to_example) ==
    [py |-> "dict", keys |-> keys, context |-> context, from_word |-> from_word,
     from_example |-> from_example, to_word |-> to_word, to_example |-> to_example]

Section(keys, title, entries) ==
    [py |-> "dict", keys |-> keys, title |-> title, entries |-> entries]

Result(keys, url, translations) ==
    [py |-> "dict", keys |-> keys, word |-> "hello", from_lang |-> "English",
     to_lang |-> "French", url |-> url, translations |-> translations]

AllResultKeys == {"word", "from_lang", "to_lang", "url", "translations"}

MeaningPool ==
    << ToWord({"meaning"}, "bonjour", "", ""),
       ToWord({"meaning", "grammar", "notes"}, "salut", "interj", "familier"),
       ToWord({"meaning", "grammar", "notes"}, "allô", "", "au téléphone"),
       ToWord({"grammar"}, "", "nm", "") >>

ExamplePool == << "Bonjour, le monde !", "", "Salut !" >>

\* the fields of an entry other than its two lists
EntryKinds ==
    << [keys |-> {"from_word"}, context |-> "", from_example |-> "",
        from_word |-> FromWord({"source"}, <<"h","e","l","l","o">>, "")],
       [keys |-> {"from_word", "context", "from_example"}, context |-> "greeting",
        from_example |-> "Hello, world!",
        from_word |-> FromWord({"source", "grammar"}, <<"H","e","l","l","o">>, "interj")],
       [keys |-> {"from_word", "context", "from_example"}, context |-> "",
        from_example |-> "I need help.",
        from_word |-> FromWord({"source", "grammar"}, <<"h","e","l","p">>, "n")],
       [keys |-> {"context", "from_example"}, context |-> "informal",
        from_example |-> "", from_word |-> FromWord({}, <<>>, "")],
       [keys |-> {"from_word", "context"}, context |-> "",
        from_example |-> "",
        from_word |-> FromWord({"source", "grammar"}, <<"H","E","L","L","O">>, "")],
       [keys |-> {"from_word", "from_example"}, context |-> "",
        from_example |-> "Help!",
        from_word |-> FromWord({"grammar"}, <<>>, "v")] >>

Titles == << "Principal Translations", "", "Additional Translations" >>

\* A family of results: nS sections of nE entries; entry e of section s is
\* of kind off + s * nE + e (cyclically) with nM meanings, one fewer when
\* s + e is odd, and (nX + e) mod (MaxMeanings + 2) examples; section s has the
\* title off + s (cyclically), or none.  "bad" puts a value of the wrong
\* type last in the list named, or leaves the key "word" out.
FamilyEntry(nE, nM, nX, off, bad, s, e, last) ==
    LET k == EntryKinds[((off + s * nE + e) % Len(EntryKinds)) + 1]
        m == IF nM = 0 THEN 0 ELSE nM - ((s + e) % 2)
        x == (nX + e) % (MaxMeanings + 2)
        to_word == [i \in 1..m |-> MeaningPool[((off + i) % Len(MeaningPool)) + 1]]
        to_example == [i \in 1..x |-> ExamplePool[((off + e + i) % Len(ExamplePool)) + 1]]
    IN  Entry(k.keys \cup {"to_word"} \cup (IF x > 0 \/ off % 2 = 0 THEN {"to_example"} ELSE {}),
              k.context, k.from_word, k.from_example,
              to_word \o (IF bad = "to_word" /\ last THEN <<PyStr>> ELSE <<>>),
              to_example)

FamilySection(nS, nE, nM, nX, off, bad, s) ==
    LET t == (off + s) % (Len(Titles) + 1)
        entries == [i \in 1..nE |->
                      FamilyEntry(nE, nM, nX, off, bad, s, i - 1, s = nS - 1 /\ i = nE)]
    IN  Section((IF t = 0 THEN {} ELSE {"title"}) \cup (IF nE > 0 \/ off % 2 = 0 THEN {"entries"} ELSE {}),
                IF t = 0 THEN "" ELSE Titles[t],
                entries \o (IF bad = "entry" /\ s = nS - 1 THEN <<PyStr>> ELSE <<>>))

FamilyResult(nS, nE, nM, nX, off, url, bad) ==
    Result((IF bad = "word" THEN AllResultKeys \ {"word"} ELSE AllResultKeys)
              \ (IF url = "" /\ off % 2 = 1 THEN {"url"} ELSE {}),
           url,
           [i \in 1..nS |-> FamilySection(nS, nE, nM, nX, off, bad, i - 1)]
              \o (IF bad = "section" THEN <<PyStr>> ELSE <<>>))

Urls == {"", "https://www.wordreference.com/enfr/hello"}

Bads == {"none", "word", "section", "entry", "to_word"}

FamilyResults ==
    { FamilyResult(nS, nE, nM, nX, off, url, bad) :
        nS \in 0..MaxSections, nE \in 0..MaxEntries, nM \in 0..MaxMeanings,
        nX \in 0..(MaxMeanings + 1), off \in 0..(Len(EntryKinds) - 1),
        url \in Urls, bad \in Bads }

\* one section "Principal Translations" with one entry hello -> bonjour
ScenarioResult ==
    Result(AllResultKeys, "https://www.wordreference.com/enfr/hello",
           << Section({"title", "entries"}, "Principal Translations",
                      << Entry({"from_word", "to_word"}, "",
                               FromWord({"source"}, <<"h","e","l","l","o">>, ""), "",
                               << ToWord({"meaning"}, "bonjour", "", "") >>, <<>>) >>) >>)

\* results that "not result or ... not result['translations']" takes as empty
EmptyResults ==
    { PyNone,
      [py |-> "dict", keys |-> {}],
      Result(AllResultKeys \ {"translations"}, "", <<>>),
      Result(AllResultKeys, "", <<>>),
      Result({"translations"}, "", <<>>) }

NotCalled == [called |-> FALSE, raised |-> FALSE, msg |-> "", value |-> PyNone]

Returns(v) == [called |-> TRUE, raised |-> FALSE, msg |-> "", value |-> v]

Raises(msg) == [called |-> TRUE, raised |-> TRUE, msg |-> msg, value |-> PyNone]

\* WordReference(lang_pair): a session, or a failure
CtorOutcomes == { Returns(PyNone), Raises("dictionary not available") }

\* session.translate(text): a failure or a value
FailOutcomes == { Raises("timeout"), Raises("") }

SampleResults ==
    { ScenarioResult }
    \cup { FamilyResult(2, 2, 2, 1, off, "", bad) : off \in {1, 4}, bad \in Bads }

Outcomes ==
    FailOutcomes \cup { Returns(v) : v \in EmptyResults \cup SampleResults }

FormatOutcomes ==
    FailOutcomes \cup { Returns(v) : v \in EmptyResults \cup {ScenarioResult} \cup FamilyResults }

-----------------------------------------------------------------------------
(* The sequential dispatcher: one query at a time                          *)

NoThreads == <<>>

InitWith(registries, triggers, thr) ==
    /\ available_dicts \in registries
    /\ wr_instances = <<>>
    /\ sessions = 0
    /\ assigned = <<>>
    /\ phase = "idle"
    /\ query_string = <<>>
    /\ trigger \in triggers
    /\ results = <<>>
    /\ retrieval = [lang_pair |-> <<>>, ctor |-> NotCalled, tr |-> NotCalled,
                    ctor_calls |-> 0, translate_calls |-> 0]
    /\ threads = thr

Init == InitWith(Registries, Triggers, NoThreads)

InitFormat == InitWith({DictPool}, {"w "}, NoThreads)

\* the host hands the plugin a new Query: its string, no items yet
NewQuery(raws) ==
    /\ phase = "idle"
    /\ \E raw \in raws : query_string' = raw
    /\ phase' = "pending"
    /\ UNCHANGED <<available_dicts, wr_instances, sessions, assigned, trigger,
                   results, retrieval, threads>>

\* wr_instances[lang_pair] = WordReference(lang_pair)
Store(instances, lang_pair, session) ==
    [c \in DOMAIN instances \cup {lang_pair} |->
        IF c = lang_pair THEN session ELSE instances[c]]

Count(counts, c) == IF c \in DOMAIN counts THEN counts[c] ELSE 0

Bump(counts, c) ==
    [d \in DOMAIN counts \cup {c} |-> IF d = c THEN Count(counts, c) + 1 ELSE counts[d]]

\* Plugin.handleTriggerQuery(query), with what the collaborators do when
\* the handler calls them
HandleTriggerQuery(outs) ==
    /\ phase = "pending"
    /\ \E p \in {Parse(query_string, available_dicts)} :
       \E constructs \in {p.mode = "translate" /\ NeedsSession(p.lang_pair, wr_instances)} :
       \E ctor \in (IF constructs THEN CtorOutcomes ELSE {NotCalled}) :
       \E tr \in (IF p.mode = "translate" /\ ~ctor.raised THEN outs ELSE {NotCalled}) :
       \E h \in {handleTriggerQuery(query_string, trigger, available_dicts,
                                    wr_instances, ctor, tr)} :
          /\ results' = h.items
          /\ retrieval' = [lang_pair |-> h.lang_pair, ctor |-> ctor, tr |-> tr,
                           ctor_calls |-> h.ctor_calls,
                           translate_calls |-> h.translate_calls]
          /\ sessions' = IF h.stored THEN sessions + 1 ELSE sessions
          /\ wr_instances' = IF h.stored
                             THEN Store(wr_instances, h.lang_pair, sessions + 1)
                             ELSE wr_instances
          /\ assigned' = IF h.stored THEN Bump(assigned, h.lang_pair) ELSE assigned
    /\ phase' = "done"
    /\ UNCHANGED <<available_dicts, query_string, trigger, threads>>

\* the host drops the query; the plugin instance stays
Discard ==
    /\ phase = "done"
    /\ phase' = "idle"
    /\ query_string' = <<>>
    /\ results' = <<>>
    /\ retrieval' = [lang_pair |-> <<>>, ctor |-> NotCalled, tr |-> NotCalled,
                     ctor_calls |-> 0, translate_calls |-> 0]
    /\ UNCHANGED <<available_dicts, wr_instances, sessions, assigned, trigger, threads>>

Next == NewQuery(RawInputs) \/ HandleTriggerQuery(Outcomes) \/ Discard

Spec == Init /\ [][Next]_vars

NextFormat == NewQuery(FormatQueries) \/ HandleTriggerQuery(FormatOutcomes) \/ Discard

SpecFormat == InitFormat /\ [][NextFormat]_vars

-----------------------------------------------------------------------------
(* Overlapping queries: the host runs handleTriggerQuery of several        *)
(* queries at once, and the steps of _translate on the cache interleave    *)

Threads == 1..MaxThreads

\* the supported code the overlapping queries ask for
CacheCodes == { <<"e","n","f","r">> }

IdleThread == [pc |-> "idle", lang_pair |-> <<>>, session |-> 0]

InitCache == InitWith({DictPool}, {"w "}, [t \in Threads |-> IdleThread])

\* handleTriggerQuery reaches _translate with a supported code
TStart(t) ==
    /\ threads[t].pc = "idle"
    /\ \E c \in CacheCodes :
          threads' = [threads EXCEPT ![t] = [IdleThread EXCEPT !.pc = "check",
                                                                 !.lang_pair = c]]
    /\ UNCHANGED <<available_dicts, wr_instances, sessions, assigned, phase,
                   query_string, trigger, results, retrieval>>

\* line 155: if lang_pair not in self.wr_instances
TCheck(t) ==
    /\ threads[t].pc = "check"
    /\ threads' = [threads EXCEPT ![t].pc =
                      IF NeedsSession(threads[t].lang_pair, wr_instances)
                      THEN "construct" ELSE "translate"]
    /\ UNCHANGED <<available_dicts, wr_instances, sessions, assigned, phase,
                   query_string, trigger, results, retrieval>>

\* line 157, right-hand side: WordReference(lang_pair) gives a new object or raises
TConstruct(t) ==
    /\ threads[t].pc = "construct"
    /\ \E ctor \in CtorOutcomes :
          IF ctor.raised
          THEN /\ threads' = [threads EXCEPT ![t].pc = "done"]
               /\ sessions' = sessions
          ELSE /\ threads' = [threads EXCEPT ![t].pc = "store",
                                             ![t].session = sessions + 1]
               /\ sessions' = sessions + 1
    /\ UNCHANGED <<available_dicts, wr_instances, assigned, phase,
                   query_string, trigger, results, retrieval>>

\* line 157, the assignment self.wr_instances[lang_pair] = ...
TStore(t) ==
    /\ threads[t].pc = "store"
    /\ wr_instances' = Store(wr_instances, threads[t].lang_pair, threads[t].session)
    /\ assigned' = Bump(assigned, threads[t].lang_pair)
    /\ threads' = [threads EXCEPT ![t].pc = "translate", ![t].session = 0]
    /\ UNCHANGED <<available_dicts, sessions, phase, query_string, trigger,
                   results, retrieval>>

\* line 161: self.wr_instances[lang_pair].translate(text), and the rest of
\* the handler, which does not touch the cache
TTranslate(t) ==
    /\ threads[t].pc = "translate"
    /\ threads[t].lang_pair \in DOMAIN wr_instances
    /\ threads' = [threads EXCEPT ![t].pc = "done"]
    /\ UNCHANGED <<available_dicts, wr_instances, sessions, assigned, phase,
                   query_string, trigger, results, retrieval>>

\* the handler returns
TFinish(t) ==
    /\ threads[t].pc = "done"
    /\ threads' = [threads EXCEPT ![t] = IdleThread]
    /\ UNCHANGED <<available_dicts, wr_instances, sessions, assigned, phase,
                   query_string, trigger, results, retrieval>>

NextCache ==
    \E t \in Threads :
        TStart(t) \/ TCheck(t) \/ TConstruct(t) \/ TStore(t) \/ TTranslate(t) \/ TFinish(t)

SpecCache == InitCache /\ [][NextCache]_vars

-----------------------------------------------------------------------------
(* The properties, stated on their own terms                               *)

Blank(c) == c = " " \/ c = "\t"

CasePairs ==
    { <<"E","e">>, <<"N","n">>, <<"F","f">>, <<"R","r">>, <<"H","h">>, <<"L","l">>,
      <<"O","o">>, <<"P","p">>, <<"Z","z">>, <<"S","s">>, <<"C","c">>, <<"A","a">> }

SameIgnoringCase(a, b) ==
    /\ Len(a) = Len(b)
    /\ \A i \in 1..Len(a) :
          a[i] = b[i] \/ <<a[i], b[i]>> \in CasePairs \/ <<b[i], a[i]>> \in CasePairs

LowerCased(a) ==
    [i \in 1..Len(a) |->
        IF \E q \in CasePairs : q[1] = a[i]
        THEN (CHOOSE q \in CasePairs : q[1] = a[i])[2] ELSE a[i]]

Least(S) == CHOOSE i \in S : \A j \in S : i <= j

Greatest(S) == CHOOSE i \in S : \A j \in S : j <= i

\* the positions where a whitespace-delimited token starts
TokenStarts(raw) ==
    { i \in 1..Len(raw) : ~Blank(raw[i]) /\ (i = 1 \/ Blank(raw[i - 1])) }

TokenAt(raw, i) ==
    SubSeq(raw, i, Greatest({ j \in i..Len(raw) : \A k \in i..j : ~Blank(raw[k]) }))

FirstToken(raw) == TokenAt(raw, Least(TokenStarts(raw)))

\* empty after trimming, fewer than two tokens, or a first token not 4 long
UsageShape(raw) ==
    Cardinality(TokenStarts(raw)) < 2 \/ Len(FirstToken(raw)) # 4

QueriedCode(raw) == LowerCased(FirstToken(raw))

\* the remainder after the first token, trimmed
QueriedText(raw) ==
    SubSeq(raw, Least(TokenStarts(raw) \ {Least(TokenStarts(raw))}),
           Greatest({ i \in 1..Len(raw) : ~Blank(raw[i]) }))

InRegistry(code, dicts) == \E i \in 1..Len(dicts) : dicts[i].code = code

Translating ==
    /\ phase = "done"
    /\ ~UsageShape(query_string)
    /\ InRegistry(QueriedCode(query_string), available_dicts)

\* translate() was called and returned a value
Returned == Translating /\ retrieval.tr.called /\ ~retrieval.tr.raised

IsTranslationRecord(item) == item.id \notin {"translator_error", "translator_no_results"}

CompositeId(t) ==
    "translator_result_" \o ToString(t[1]) \o "_" \o ToString(t[2]) \o "_" \o ToString(t[3])

SectionsOf(r) == IF "translations" \in r.keys THEN r.translations ELSE <<>>

EntriesOf(sec) == IF "entries" \in sec.keys THEN sec.entries ELSE <<>>

MeaningsOf(entry) == IF "to_word" \in entry.keys THEN entry.to_word ELSE <<>>

ExamplesOf(entry) == IF "to_example" \in entry.keys THEN entry.to_example ELSE <<>>

FieldOf(d, key) == IF key \in d.keys THEN d[key] ELSE ""

SourceOf(entry) ==
    IF "from_word" \in entry.keys /\ "source" \in entry.from_word.keys
    THEN entry.from_word.source ELSE <<>>

Positions == (0..MaxSections) \X (0..MaxEntries) \X (0..MaxMeanings)

\* t names a section, an entry of it and a meaning of that entry
Exists(r, t) ==
    /\ t[1] < Len(SectionsOf(r))
    /\ t[2] < Len(EntriesOf(SectionsOf(r)[t[1] + 1]))
    /\ t[3] < Len(MeaningsOf(EntriesOf(SectionsOf(r)[t[1] + 1])[t[2] + 1]))

SectionAt(r, t) == SectionsOf(r)[t[1] + 1]

EntryAt(r, t) == EntriesOf(SectionAt(r, t))[t[2] + 1]

MeaningAt(r, t) == MeaningsOf(EntryAt(r, t))[t[3] + 1]

\* every section, entry and meaning is a dict, and the keys the handler
\* reads without a default are there
WellFormed(r) ==
    /\ r.py = "dict"
    /\ {"word", "from_lang", "to_lang", "translations"} \subseteq r.keys
    /\ \A i \in 1..Len(r.translations) :
          /\ r.translations[i].py = "dict"
          /\ \A j \in 1..Len(EntriesOf(r.translations[i])) :
                /\ EntriesOf(r.translations[i])[j].py = "dict"
                /\ \A k \in 1..Len(MeaningsOf(EntriesOf(r.translations[i])[j])) :
                      MeaningsOf(EntriesOf(r.translations[i])[j])[k].py = "dict"

Echo(r, t, text) == t[1] = 0 /\ t[2] = 0 /\ SameIgnoringCase(SourceOf(EntryAt(r, t)), text)

Before(a, b) ==
    \/ a[1] < b[1]
    \/ a[1] = b[1] /\ a[2] < b[2]
    \/ a[1] = b[1] /\ a[2] = b[2] /\ a[3] < b[3]

IdOfPosition == [t \in Positions |-> CompositeId(t)]

PositionOfId ==
    [id \in { IdOfPosition[t] : t \in Positions } |->
        CHOOSE t \in Positions : IdOfPosition[t] = id]

HasPosition(item) == item.id \in DOMAIN PositionOfId

\* the position a translation record's id names
PositionOf(item) == PositionOfId[item.id]

Scenario == Returned /\ retrieval.tr.value = ScenarioResult

-----------------------------------------------------------------------------
(* C1: the scenario "enfr hello" -> hello / bonjour                        *)

Hello == <<"h","e","l","l","o">>

OneRecordHelloBonjour ==
    /\ Len(results) = 1
    /\ results[1].text = "hello → bonjour"
    /\ results[1].subtext = "Principal Translations"
    /\ results[1].actions[1].kind = "setClipboardText"
    /\ results[1].actions[1].arg = "bonjour"

\* C1 as stated: for the query "enfr hello", when translate returns one
\* section "Principal Translations" with the one entry hello -> bonjour, the
\* response is exactly one record: headline "hello → bonjour", detail
\* "Principal Translations", copy payload "bonjour".
C1_ScenarioOneRecord ==
    (Scenario /\ Str(query_string) = "enfr hello") => OneRecordHelloBonjour

\* C1 as amended: for that result, the response holds no record when the
\* queried text is "hello" in any case (the only entry is entry 0 of
\* section 0 and echoes the query), and is the one record hello -> bonjour
\* when the queried text differs from "hello".
C1_ScenarioSuppressed ==
    Scenario =>
        IF SameIgnoringCase(QueriedText(query_string), Hello)
        THEN results = <<>>
        ELSE OneRecordHelloBonjour

C1_Witness ==
    Scenario /\ Str(query_string) = "enfr hello" /\ results = <<>>

-----------------------------------------------------------------------------
(* C2: the one entry that can be suppressed                                *)

Kept(r, text) == { t \in Positions : Exists(r, t) /\ ~Echo(r, t, text) }

\* C2: for a returned result with non-empty translations, entry 0 of
\* section 0 is left out if and only if its source equals the queried text
\* ignoring case; every other entry gives one record per item of its
\* to_word list.
C2_OnlyEchoSuppressed ==
    (Returned /\ WellFormed(retrieval.tr.value)
        /\ retrieval.tr.value.translations # <<>>) =>
        LET kept == Kept(retrieval.tr.value, QueriedText(query_string))
        IN  /\ Len(results) = Cardinality(kept)
            /\ { results[i].id : i \in 1..Len(results) } = { IdOfPosition[t] : t \in kept }

C2_Witness ==
    /\ Returned
    /\ WellFormed(retrieval.tr.value)
    /\ LET r == retrieval.tr.value
           text == QueriedText(query_string)
       IN  /\ Exists(r, <<0, 0, 0>>)
           /\ Echo(r, <<0, 0, 0>>, text)
           /\ SourceOf(EntryAt(r, <<0, 0, 0>>)) # text
           /\ \E t \in Positions :
                 /\ Exists(r, t)
                 /\ <<t[1], t[2]>> # <<0, 0>>
                 /\ SameIgnoringCase(SourceOf(EntryAt(r, t)), text)
                 /\ \E i \in 1..Len(results) : results[i].id = IdOfPosition[t]
           /\ \A i \in 1..Len(results) : results[i].id # "translator_result_0_0_0"

-----------------------------------------------------------------------------
(* C6: order and ids of the translation records                            *)

\* C6: the translation records of a response come in strictly increasing
\* order of (section index, entry index, meaning index), each with the id
\* made of exactly that triple, so the ids are pairwise distinct.
C6_OrderedUniqueIds ==
    Returned =>
        LET r == retrieval.tr.value
            n == Len(results)
        IN  /\ \A i \in 1..n :
                  IsTranslationRecord(results[i]) =>
                      /\ HasPosition(results[i])
                      /\ Exists(r, PositionOf(results[i]))
                      /\ results[i].actions[1].arg
                            = FieldOf(MeaningAt(r, PositionOf(results[i])), "meaning")
                      \* each record comes after the one before it
                      /\ i > 1 =>
                            /\ IsTranslationRecord(results[i - 1])
                            /\ Before(PositionOf(results[i - 1]), PositionOf(results[i]))
            /\ \A i \in 1..n : \A j \in 1..n :
                  (i < j /\ IsTranslationRecord(results[i]) /\ IsTranslationRecord(results[j]))
                      => results[i].id # results[j].id

C6_Witness ==
    /\ Returned
    /\ Len(results) >= 4
    /\ results[1].id = "translator_result_0_1_0"
    /\ results[Len(results)].id = "translator_result_1_1_1"

-----------------------------------------------------------------------------
(* C9: the detail of a translation record                                  *)

\* the detail as the claim composes it, for meaning i of an entry of the
\* section numbered N (from 1)
ClaimedDetail(sec, entry, i, N) ==
    LET ctx == FieldOf(entry, "context")
        fe == FieldOf(entry, "from_example")
        hasTo == i < Len(ExamplesOf(entry))
        te == ExamplesOf(entry)[i + 1]
        line == CASE fe # "" /\ hasTo -> fe \o " ⟹ " \o te
                  [] fe # "" /\ ~hasTo -> fe
                  [] OTHER -> te
    IN  IF ctx = "" /\ fe = "" /\ ~hasTo
        THEN (IF "title" \in sec.keys THEN sec.title ELSE "Section " \o ToString(N))
        ELSE IF ctx # "" /\ (fe # "" \/ hasTo) THEN ctx \o "\n" \o line
        ELSE IF ctx # "" THEN ctx
        ELSE line

\* the two cases in which the composition gives the empty string
EmptyDetailCase(sec, entry, i) ==
    /\ FieldOf(entry, "context") = ""
    /\ FieldOf(entry, "from_example") = ""
    /\ IF i < Len(ExamplesOf(entry))
       THEN ExamplesOf(entry)[i + 1] = ""
       ELSE "title" \in sec.keys /\ sec.title = ""

DetailsAsComposed(emptyAllowed) ==
    Returned =>
        LET r == retrieval.tr.value
        IN  \A k \in 1..Len(results) :
               IsTranslationRecord(results[k]) =>
                   LET t == PositionOf(results[k])
                   IN  /\ results[k].subtext =
                              ClaimedDetail(SectionAt(r, t), EntryAt(r, t), t[3], t[1] + 1)
                       /\ IF emptyAllowed
                          THEN (results[k].subtext = "")
                                   <=> EmptyDetailCase(SectionAt(r, t), EntryAt(r, t), t[3])
                          ELSE results[k].subtext # ""

-----------------------------------------------------------------------------
(* C10: an Error record stands alone                                       *)

\* C10: whenever a failure is raised at any point of the translation
\* attempt, also after translation records were added, the response is the
\* single Error record.
C10_ErrorAlone ==
    (Translating /\ \E i \in 1..Len(results) : results[i].id = "translator_error")
        => Len(results) = 1

-----------------------------------------------------------------------------
(* C3: an empty result gives the NoResults response                        *)

IsEmptyResult(v) ==
    \/ v.py = "NoneType"
    \/ v.keys = {}
    \/ "translations" \notin v.keys
    \/ v.translations = <<>>

\* C3: when translate returns None, an empty dict, a dict without
\* translations or with an empty translations list, the response is exactly
\* the one record translator_no_results with its retry action, and no Error
\* record.
C3_EmptyGivesNoResults ==
    (Returned /\ IsEmptyResult(retrieval.tr.value)) =>
        /\ Len(results) = 1
        /\ results[1].id = "translator_no_results"
        /\ Len(results[1].actions) = 1
        /\ results[1].actions[1].id = "retry"

-----------------------------------------------------------------------------
(* C4: a failure of translate                                              *)

\* C4: when translate raises with message m, the response is exactly the
\* Error record, its detail m, its one action a copy of m; translate was
\* called once.
C4_FailureGivesError ==
    (Translating /\ retrieval.tr.called /\ retrieval.tr.raised) =>
        /\ Len(results) = 1
        /\ results[1].id = "translator_error"
        /\ results[1].subtext = retrieval.tr.msg
        /\ Len(results[1].actions) = 1
        /\ results[1].actions[1].id = "copy"
        /\ results[1].actions[1].kind = "setClipboardText"
        /\ results[1].actions[1].arg = retrieval.tr.msg
        /\ retrieval.translate_calls = 1

C4_Witness ==
    /\ Translating
    /\ retrieval.tr.called /\ retrieval.tr.raised /\ retrieval.tr.msg = "timeout"
    /\ Len(results) = 1
    /\ results[1].actions[1].arg = "timeout"

-----------------------------------------------------------------------------
(* C7: the InvalidPair response                                            *)

Working(d) == Str(d.code) \notin {"esca", "ruen"}

CacheUntouched ==
    /\ wr_instances' = wr_instances
    /\ sessions' = sessions
    /\ assigned' = assigned
    /\ available_dicts' = available_dicts
    /\ retrieval'.ctor_calls = 0
    /\ retrieval'.translate_calls = 0

\* C7: a query of valid shape whose lower-cased code is not in the registry
\* gets the invalid-pair record followed by at most 10 suggestions, the
\* first working pairs of the registry in its order, none for "esca" or
\* "ruen"; no session is created and translate is not called.
C7_InvalidPair ==
    [][(/\ phase = "pending" /\ phase' = "done"
        /\ ~UsageShape(query_string)
        /\ ~InRegistry(QueriedCode(query_string), available_dicts)) =>
          LET working == SelectSeq(available_dicts, Working)
              n == IF Len(working) < 10 THEN Len(working) ELSE 10
          IN  /\ Len(results') = 1 + n
              /\ results'[1].id = "translator_invalid_pair"
              /\ results'[1].text = "Invalid language pair: " \o Str(QueriedCode(query_string))
              /\ \A i \in 1..n :
                    /\ results'[i + 1].id = "translator_pair_" \o Str(working[i].code)
                    /\ results'[i + 1].actions[1].id = "use"
                    /\ results'[i + 1].actions[1].arg = trigger \o Str(working[i].code) \o " "
              /\ \A i \in 1..Len(results') :
                    results'[i].id \notin {"translator_pair_esca", "translator_pair_ruen"}
              /\ CacheUntouched]_vars

C7_Witness ==
    /\ phase = "done"
    /\ Len(available_dicts) = 15
    /\ Len(results) = 11
    /\ results[1].id = "translator_invalid_pair"
    /\ results[8].id = "translator_pair_engr"

-----------------------------------------------------------------------------
(* C8: the Usage response                                                  *)

UsageRecord(id, text, subtext, input, actionId, actionText, payload) ==
    [id |-> id, text |-> text, subtext |-> subtext,
     iconUrls |-> <<"file:wordreference.svg">>, inputActionText |-> input,
     actions |-> << [id |-> actionId, text |-> actionText,
                     kind |-> "setClipboardText", arg |-> payload] >>]

UsageResponse(trig) ==
    << UsageRecord("translator_usage", "WordReference Translation",
                   "Format: [language_pair] [word] (e.g., 'enfr hello')",
                   trig \o "enfr ", "copy", "Copy format", "enfr hello"),
       UsageRecord("translator_example_0", "Example: enfr hello", "English to French",
                   trig \o "enfr hello", "use", "Use this example", trig \o "enfr hello"),
       UsageRecord("translator_example_1", "Example: fren bonjour", "French to English",
                   trig \o "fren bonjour", "use", "Use this example", trig \o "fren bonjour"),
       UsageRecord("translator_example_2", "Example: ende computer", "English to German",
                   trig \o "ende computer", "use", "Use this example", trig \o "ende computer"),
       UsageRecord("translator_example_3", "Example: esen gracias", "Spanish to English",
                   trig \o "esen gracias", "use", "Use this example", trig \o "esen gracias") >>

\* C8: a query that is empty after trimming, has fewer than two tokens, or
\* whose first token is not 4 long gets exactly the Usage response, the
\* usage record and the four examples, the same for all such queries; the
\* registry and the cache are left as they are.
C8_UsageForMalformed ==
    [][(phase = "pending" /\ phase' = "done" /\ UsageShape(query_string)) =>
          (results' = UsageResponse(trigger) /\ CacheUntouched)]_vars

C8_Witness ==
    /\ phase = "done"
    /\ Cardinality(TokenStarts(query_string)) >= 2
    /\ Len(FirstToken(query_string)) = 2
    /\ Len(results) = 5
    /\ results[1].id = "translator_usage"

-----------------------------------------------------------------------------
(* C5: the identity of a cached session under overlapping queries          *)

FirstUse(c) ==
    \E t \in DOMAIN threads :
        threads[t].lang_pair = c /\ threads[t].pc \in {"construct", "store"}

\* C5 as stated: the entry of one code is assigned at most twice (one
\* overwrite), however many queries overlap.
C5_AssignedAtMostTwice == \A c \in DOMAIN assigned : assigned[c] <= 2

\* C5 as amended: the entry of one code is assigned at most once per query
\* overlapping at first use (so up to n times for n such queries, not at
\* most twice); and once the entry is stored and no query is between its
\* cache test and its store, no query gets there again and the stored
\* session keeps its identity.
C5_StableAfterFirstUse ==
    /\ [](\A c \in DOMAIN assigned : assigned[c] <= MaxThreads)
    /\ [][\A c \in DOMAIN wr_instances :
             ~FirstUse(c) =>
                 /\ c \in DOMAIN wr_instances'
                 /\ wr_instances'[c] = wr_instances[c]
                 /\ ~FirstUse(c)']_vars

C5_Witness ==
    /\ \E c \in DOMAIN assigned : assigned[c] = MaxThreads
    /\ \A t \in DOMAIN threads : threads[t].pc = "done"

=============================================================================
